---- MODULE Spec2Model ----
(***************************************************************************)
(* EVV back office: the Visit entity, its call records, its lifecycle     *)
(* (visit_type) and its EVV submission state, as changed by the HTTP       *)
(* handlers of evv/views.py and the admin actions of evv/admin.py.         *)
(*                                                                         *)
(* One action is one whole request (or one whole admin action): every      *)
(* save() the handler issues is part of it.  The clock `now` stands for    *)
(* timezone.now(); each handled request advances it by one, so two         *)
(* requests never share a timestamp.                                       *)
(*                                                                         *)
(* `visits` maps a primary key to the persisted row, `rows` is the set of  *)
(* primary keys present in evv_visits, `clients` holds the Client rows the *)
(* visits refer to, and `last` describes the request handled last: the     *)
(* operation, its target, the HTTP status answered, the call assignment    *)
(* recorded, the visits uploaded to the aggregator with the result of the  *)
(* upload, and the visits returned in invalid_records.  `request` holds    *)
(* what that request carried: who sent it and, for a check-out, where its  *)
(* coordinates lie.                                                        *)
(*                                                                         *)
(* The outbound client, evv/services/evv_service.py, is a state machine of *)
(* its own (ServiceSpec): `svc` is one call of an EVVService method, with  *)
(* the HTTP requests it has issued so far and the value it returned.       *)
(* The ClientEmployeeXref link of one client and one employee is `xref`    *)
(* (XrefSpec), with `xlast` the last request on it.  The uploads of        *)
(* clients and links (SendSpec) read the Client table `ctable` and the     *)
(* setting `provider`, and `slast` is what the last one sent and reported. *)
(* The accounts (AccountsSpec) are `users`, with `alast` the last request  *)
(* on them.  The Employee rows and the User rows their post_save hooks     *)
(* create (EmployeeSpec) are `employees` and `accounts`, with `elast` the  *)
(* last request on them.  The time records of the employee app (TimeSpec)  *)
(* are `time_records`; `tnow` is the clock their requests read, `treqs`    *)
(* the check-ins in progress and `tlast` the last answer.  The generation  *)
(* of visit_other_id in Visit.save (IdSpec) has the persisted IDs in       *)
(* `idtable`, the millisecond clock `millis`, the saves in progress in     *)
(* `creators` and the outcome of the last in `glast`.                      *)
(***************************************************************************)
EXTENDS Integers, Sequences, FiniteSets, TLC

VARIABLES visits, rows, clients, now, last, request, svc, xref, xlast,
          ctable, provider, slast, users, alast,
          employees, accounts, elast,
          time_records, tnow, treqs, tlast,
          idtable, millis, creators, glast

\* The visits and the requests on them.
visitVars == <<visits, rows, clients, now, last, request>>

\* The EVVService call in progress.
svcVars == <<svc>>

\* The ClientEmployeeXref row and the last request on it.
xrefVars == <<xref, xlast>>

\* The Client table as the uploads read it, the EVV_PROVIDER_ID setting and
\* the last upload request.
sendVars == <<ctable, provider, slast>>

\* The accounts and the last request on them.
acctVars == <<users, alast>>

\* The Employee rows, the User rows they link to and the last request on
\* them.
empVars == <<employees, accounts, elast>>

\* The TimeRecord rows, the clock of the check-ins, the check-ins being
\* handled and the last answer given.
timeVars == <<time_records, tnow, treqs, tlast>>

\* The visit_other_id of the persisted visits, the millisecond clock, the
\* creations in progress and the outcome of the last one.
idVars == <<idtable, millis, creators, glast>>

\* What a request on a visit, a call of the outbound client, a request on
\* the link, an upload of clients and a request on an account leave alone.
outsideVisits == <<svcVars, xrefVars, sendVars, acctVars, empVars, timeVars, idVars>>

outsideService == <<visitVars, xrefVars, sendVars, acctVars, empVars, timeVars, idVars>>

outsideXrefs == <<visitVars, svcVars, sendVars, acctVars, empVars, timeVars, idVars>>

outsideSends == <<visitVars, svcVars, xrefVars, acctVars, empVars, timeVars, idVars>>

outsideAccounts == <<visitVars, svcVars, xrefVars, sendVars, empVars, timeVars, idVars>>

outsideXrefsAndSends == <<visitVars, svcVars, acctVars, empVars, timeVars, idVars>>

outsideEmployees == <<visitVars, svcVars, xrefVars, sendVars, acctVars, timeVars, idVars>>

outsideTime == <<visitVars, svcVars, xrefVars, sendVars, acctVars, empVars, idVars>>

outsideIds == <<visitVars, svcVars, xrefVars, sendVars, acctVars, empVars, timeVars>>

vars == <<visitVars, svcVars, xrefVars, sendVars, acctVars, empVars, timeVars, idVars>>

(***************************************************************************)
(* Bounds of the model.                                                    *)
(***************************************************************************)
\* The clock's horizon: requests are handled at times 1..MaxTime.
MaxTime == 2

\* ClientEmployeeXref.sequence_id is followed up to this value.
MaxSequenceId == 3

\* At most this many employees are created.
MaxEmployees == 2

\* The clock of the time records runs up to this instant.
MaxInstant == 4

\* The millisecond clock of Visit.save runs from 0 up to this value.
MaxMillis == 2

\* The Visit rows of the database.
VisitIds == {1, 2}

(***************************************************************************)
(* Values.                                                                 *)
(***************************************************************************)
\* A null DateTimeField; real timestamps are 1, 2, ...
NoTime == 0

VISIT_TYPE_CHOICES == {"scheduled", "in_progress", "completed", "cancelled", "no_show"}

\* request.user, seen from one visit: the user linked to the visit's employee,
\* a user linked to another employee, a user with no employee profile, and an
\* unauthenticated requester.
Requesters == {"owner", "other", "noprofile", "anon"}

\* The coordinates of a check-out request, by their distance from the
\* client's registered coordinates: within the allowed distance or beyond it.
Locations == {"near", "far"}

\* A key of checkout_data (VisitDetailView.patch) that may be absent.
Flags == {"absent", "true"}

\* result.get('response', {}).get('id') when the body carries no id (an empty
\* or non-JSON body, an error envelope).
NoneId == "None"

\* No upload was attempted.
NoResult == [status_code |-> 0, id |-> NoneId]

\* What evv.upload_visits returns: the status_code of the envelope and the id
\* found in the aggregator's response body.  A transport failure is the
\* envelope with status_code 500 and no id.
UploadResults ==
    { [status_code |-> 200, id |-> "T1"],
      [status_code |-> 200, id |-> NoneId],
      [status_code |-> 201, id |-> "T1"],
      [status_code |-> 202, id |-> "T1"],
      [status_code |-> 500, id |-> NoneId] }

Digits == {"0", "1", "2", "3", "4", "5", "6", "7", "8", "9"}

\* Client.medicaid_id values the visits' client may carry.
SampleMedicaidIds ==
    { <<"A", "1", "2", "3", "4", "5", "6", "7", "8">>,
      <<"B", "1", "2", "3", "4", "5", "6", "7", "8">> }

\* Employee.ssn of the visits' employee.
EmployeeSsn == <<"1", "2", "3", "4", "5", "6", "7", "8", "9">>

(***************************************************************************)
(* Visit: field defaults and properties.                                   *)
(***************************************************************************)
\* A freshly created visit: the field defaults of the model, with the
\* identifiers Visit.save generates ("VISIT<ms>", 14-digit sequence id).
NewVisit(pk, scheduled) ==
    [ visit_other_id          |-> <<"VISIT", pk>>,
      sequence_id_len         |-> 14,
      visit_type              |-> "scheduled",
      schedule_set            |-> scheduled,
      actual_start_time       |-> NoTime,
      actual_end_time         |-> NoTime,
      client_verified_times   |-> FALSE,
      client_verified_service |-> FALSE,
      hours_to_bill           |-> 0,
      hours_to_pay            |-> 0,
      calls                   |-> << >>,
      submitted_to_evv        |-> FALSE,
      evv_submission_id       |-> "",
      evv_submission_date     |-> NoTime,
      evv_response            |-> NoResult,
      evv_errors              |-> << >>,
      location_verified       |-> FALSE ]

\* timedelta.total_seconds(): one unit of the clock is 1000 seconds.
total_seconds(duration) == duration * 1000

\* round(x, 3) of x = seconds / 3600, as a number of thousandths: the nearest
\* integer to seconds * 1000 / 3600 (a whole multiple of 1000 seconds is never
\* half way between two thousandths).
round3(seconds) ==
    LET n == seconds * 1000
        q == n \div 3600
    IN  IF 2 * (n - q * 3600) >= 3600 THEN q + 1 ELSE q

\* Hours are held in thousandths (DecimalField, decimal_places = 3).
duration_hours(v) ==
    IF v.actual_start_time # NoTime /\ v.actual_end_time # NoTime
    THEN round3(total_seconds(v.actual_end_time - v.actual_start_time))
    ELSE 0

is_scheduled(v) == v.visit_type = "scheduled"

is_active(v) == v.visit_type = "in_progress"

is_completed(v) == v.visit_type = "completed"

can_submit_to_evv(v) ==
    IF is_completed(v)
    THEN /\ Len(v.calls) >= 2
         /\ v.actual_start_time # NoTime
         /\ v.actual_end_time # NoTime
         /\ ~v.submitted_to_evv
    ELSE IF is_scheduled(v)
    THEN v.schedule_set /\ ~v.submitted_to_evv
    ELSE FALSE

(***************************************************************************)
(* Visit: methods.  Each returns the instance as its final self.save()     *)
(* writes it.                                                              *)
(***************************************************************************)
\* add_call with the 'Time In' branch stamping the end of the visit.
add_call_stamps_end(v, assignment, t) ==
    LET c == [v EXCEPT !.calls = Append(@, [call_assignment |-> assignment,
                                            call_date_time  |-> t])]
    IN  IF assignment = "Time In"
        THEN [c EXCEPT !.actual_end_time = t,
                       !.visit_type = "in_progress"]
        ELSE IF assignment = "Time Out"
        THEN LET e == [c EXCEPT !.actual_end_time = t,
                                !.visit_type = "completed"]
             IN  [e EXCEPT !.hours_to_bill = duration_hours(e),
                           !.hours_to_pay = duration_hours(e)]
        ELSE c

\* add_call with the hours computed before actual_end_time is stamped.
add_call_stale_hours(v, assignment, t) ==
    LET c == [v EXCEPT !.calls = Append(@, [call_assignment |-> assignment,
                                            call_date_time  |-> t])]
    IN  IF assignment = "Time In"
        THEN [c EXCEPT !.actual_start_time = t,
                       !.visit_type = "in_progress"]
        ELSE IF assignment = "Time Out"
        THEN [c EXCEPT !.actual_end_time = t,
                       !.visit_type = "completed",
                       !.hours_to_bill = duration_hours(c),
                       !.hours_to_pay = duration_hours(c)]
        ELSE c

add_call(v, assignment, t) ==
    LET c == [v EXCEPT !.calls = Append(@, [call_assignment |-> assignment,
                                            call_date_time  |-> t])]
    IN  IF assignment = "Time In"
        THEN [c EXCEPT !.actual_start_time = t,
                       !.visit_type = "in_progress"]
        ELSE IF assignment = "Time Out"
        THEN LET e == [c EXCEPT !.actual_end_time = t,
                                !.visit_type = "completed"]
             IN  [e EXCEPT !.hours_to_bill = duration_hours(e),
                           !.hours_to_pay = duration_hours(e)]
        ELSE c

\* evv_submission_id is a CharField without null=True: saving the instance
\* with submission_id = None violates NOT NULL and save() raises.
save_raises(v) == v.evv_submission_id = NoneId

mark_submitted_to_evv(v, submission_id, response_data, t) ==
    [v EXCEPT !.submitted_to_evv = TRUE,
              !.evv_submission_id = submission_id,
              !.evv_submission_date = t,
              !.evv_response = response_data]

add_evv_error(v, error_message, t) ==
    [v EXCEPT !.evv_errors = Append(@, [timestamp |-> t, message |-> error_message])]

\* re.match(r'^A\d{8}$', s): "$" also matches before one trailing newline.
MatchVisitMedicaid(s) ==
    /\ Len(s) = 9 \/ (Len(s) = 10 /\ s[10] = "\n")
    /\ s[1] = "A"
    /\ \A i \in 2..9 : s[i] \in Digits

\* re.match(r'^\d{9}$', s)
MatchSsn(s) ==
    /\ Len(s) = 9 \/ (Len(s) = 10 /\ s[10] = "\n")
    /\ \A i \in 1..9 : s[i] \in Digits

ErrIf(cond, msg) == IF cond THEN <<msg>> ELSE << >>

validate_for_evv(v, client, employee_ssn) ==
    ErrIf(v.visit_other_id = << >>, "VisitOtherID is required")
    \o ErrIf(v.sequence_id_len # 14, "SequenceID must be 14 digits (YYYYMMDDHHMMSS)")
    \o (IF client.medicaid_id = << >>
        THEN <<"Client Medicaid ID is required">>
        ELSE ErrIf(~MatchVisitMedicaid(client.medicaid_id),
                   "Client Medicaid ID must be in format A12345678"))
    \o (IF employee_ssn = << >>
        THEN <<"Employee SSN is required">>
        ELSE ErrIf(~MatchSsn(employee_ssn), "Employee SSN must be 9 digits"))
    \o (IF is_scheduled(v)
        THEN ErrIf(~v.schedule_set, "Schedule times are required for scheduled visits")
        ELSE IF is_completed(v)
        THEN ErrIf(v.actual_start_time = NoTime \/ v.actual_end_time = NoTime,
                   "Actual visit times are required for completed visits")
             \o ErrIf(Len(v.calls) < 2,
                      "At least 2 calls (in and out) are required for completed visits")
             \o ErrIf(~v.client_verified_times \/ ~v.client_verified_service,
                      "Client verification is required for completed visits")
        ELSE << >>)

(***************************************************************************)
(* The state.                                                              *)
(***************************************************************************)
\* The visits' client (one Client row, shared) and its medicaid_id.
ClientOf(pk) == "c1"

NoOp ==
    [ op |-> "none", pk |-> 0, http |-> 0, call |-> "",
      payload |-> {}, result |-> NoResult, invalid |-> {} ]

\* No request yet, or a request of the back office (a batch send, an admin
\* action), whose handler looks neither at the sender nor at coordinates.
NoRequest ==
    [requester |-> "none", location |-> "none", send_type |-> "none", visit_ids |-> {}]

\* A request of a caregiver's device: its sender and, for a check-out, where
\* its coordinates lie.
From(requester, location) ==
    [NoRequest EXCEPT !.requester = requester, !.location = location]

Done(op, pk, http, call, payload, result, invalid) ==
    [ op |-> op, pk |-> pk, http |-> http, call |-> call,
      payload |-> payload, result |-> result, invalid |-> invalid ]

\* No EVVService call has been made.
NoEnvelope == [response |-> "none"]

NoOutcome == [kind |-> "none", status |-> 0]

NoCall ==
    [ op |-> "none", pc |-> "idle", sent |-> << >>, codes |-> << >>,
      result |-> NoEnvelope, returned |-> NoEnvelope, outcome |-> NoOutcome ]

\* A nullable CharField: None, or a string of characters.
None == [null |-> TRUE, chars |-> << >>]

Chars(s) == [null |-> FALSE, chars |-> s]

Null == [k |-> "null"]

\* No ClientEmployeeXref row links the client and the employee yet; the
\* fields a request leaves out hold the values a create gives them.
NoXref ==
    [ pk |-> 0, sequence_id |-> 0, start_date |-> 0, end_date |-> 0,
      live_in |-> "", relationship |-> "",
      procedure_code |-> "T1019", modifier1 |-> Null, submitted_to_evv |-> FALSE ]

NoXrefOp == [op |-> "none", http |-> 0]

XrefsAtRest ==
    /\ xref = NoXref
    /\ xlast = NoXrefOp

ClientRow(pk, first_name, medicaid_id) ==
    [ pk          |-> pk,
      client_id   |-> <<"C", pk>>,
      first_name  |-> first_name,
      last_name   |-> <<"D", "o", "e">>,
      dob         |-> [year |-> 1950, month |-> 3, day |-> 7],
      timezone    |-> "America/Phoenix",
      assent_plan |-> "Yes",
      medicaid_id |-> medicaid_id ]

NoSend == [op |-> "none", http |-> 0, sent |-> << >>, invalid |-> << >>]

SendsAtRest ==
    /\ ctable = [pk \in {1} |->
                    ClientRow(pk, <<"A", "n", "n">>,
                              Chars(<<"A", "1", "2", "3", "4", "5", "6", "7", "8">>))]
    /\ provider = None
    /\ slast = NoSend

UserIds == {1, 2, 3}

NoAccountOp == [op |-> "none", requester |-> 0, pk |-> 0, http |-> 0]

AccountsAtRest ==
    /\ users = [u \in UserIds |-> [role |-> IF u = 1 THEN "admin" ELSE "caregiver"]]
    /\ alast = NoAccountOp

NoEmployeeOp == [op |-> "none", pk |-> 0, http |-> 0, runs |-> 0]

EmployeesAtRest ==
    /\ employees = << >>
    /\ accounts = << >>
    /\ elast = NoEmployeeOp

NoTimeOp == [op |-> "none", user |-> 0, at |-> 0, http |-> 0]

TimeAtRest ==
    /\ time_records = {}
    /\ tnow = 0
    /\ treqs = [w \in {"w1", "w2"} |-> [pc |-> "idle", user |-> 0, now |-> 0, today |-> 0]]
    /\ tlast = NoTimeOp

NoSave == [creator |-> "none", outcome |-> "none", visit_other_id |-> << >>, attempts |-> 0]

IdsAtRest ==
    /\ idtable = << >>
    /\ millis = 0
    /\ creators = [t \in {"t1", "t2"} |->
                      [pc |-> "idle", visit_other_id |-> << >>, attempt |-> 0, slept_at |-> 0]]
    /\ glast = NoSave

Init ==
    /\ svc = NoCall
    /\ XrefsAtRest
    /\ SendsAtRest
    /\ AccountsAtRest
    /\ rows = VisitIds
    /\ \E sched \in [VisitIds -> BOOLEAN] :
          visits = [pk \in VisitIds |-> NewVisit(pk, sched[pk])]
    /\ \E m \in SampleMedicaidIds : clients = [c \in {"c1"} |-> [medicaid_id |-> m]]
    /\ now = 1
    /\ last = NoOp
    /\ request = NoRequest
    /\ EmployeesAtRest
    /\ TimeAtRest
    /\ IdsAtRest

(***************************************************************************)
(* Access checks.                                                          *)
(***************************************************************************)
\* VisitDetailView.get_object: the status of the error response, or 0 when
\* the visit is returned: it is returned unless an authenticated user has no
\* employee profile or is linked to another employee.
get_object(pk, requester) ==
    IF pk \notin rows \/ requester \in {"other", "noprofile"} THEN 404 ELSE 0

\* CaregiverOperationsView.post, up to the visit lookup: the status of the
\* early error response, or 0 when the visit is found and owned.
caregiver_lookup(pk, requester) ==
    IF requester = "anon" THEN 401
    ELSE IF requester = "noprofile" THEN 403
    ELSE IF requester = "other" \/ pk \notin rows THEN 404
    ELSE 0

\* A handler that answers without writing anything.
Answer(op, pk, http) ==
    /\ last' = Done(op, pk, http, "", {}, NoResult, {})
    /\ UNCHANGED <<visits, rows, clients, outsideVisits>>

\* A handler that saved visit pk as v.
Saved(op, pk, v, http, call, payload, result) ==
    /\ visits' = [visits EXCEPT ![pk] = v]
    /\ last' = Done(op, pk, http, call, payload, result, {})
    /\ UNCHANGED <<rows, clients, outsideVisits>>

Tick ==
    /\ now <= MaxTime
    /\ now' = now + 1

(***************************************************************************)
(* CaregiverOperationsView.post                                            *)
(***************************************************************************)
CaregiverOperationsView_check_in(pk, requester) ==
    /\ Tick
    /\ request' = From(requester, "none")
    /\ LET access == caregiver_lookup(pk, requester) IN
       IF access # 0
       THEN Answer("caregiver_check_in", pk, access)
       ELSE Saved("caregiver_check_in", pk, add_call(visits[pk], "Time In", now),
                  200, "Time In", {}, NoResult)

\* status_code values after which check_out marks the visit submitted.
caregiver_marks(result) == result.status_code \in {200, 202}

\* _verify_location: False without coordinates; with coordinates it reads
\* client.latitude, which Client (location_latitude, location_longitude) does
\* not have: the AttributeError is caught and the answer is False.
verify_location(location) == FALSE

CaregiverOperationsView_check_out(pk, requester, location) ==
    /\ Tick
    /\ request' = From(requester, location)
    /\ LET access == caregiver_lookup(pk, requester) IN
       IF access # 0
       THEN Answer("caregiver_check_out", pk, access)
       ELSE \E times \in BOOLEAN, service \in BOOLEAN :
              LET out == add_call(visits[pk], "Time Out", now)
                  upd == [out EXCEPT !.client_verified_times = times,
                                     !.client_verified_service = service,
                                     !.location_verified = verify_location(location)]
              IN  \* auto_submit_to_evv = False
                  \/ Saved("caregiver_check_out", pk, upd, 200, "Time Out", {}, NoResult)
                  \* auto_submit_to_evv = True (the default)
                  \/ \E result \in UploadResults :
                       IF ~caregiver_marks(result)
                       THEN Saved("caregiver_check_out", pk, upd, 200, "Time Out",
                                  {pk}, result)
                       ELSE LET sub == mark_submitted_to_evv(upd, result.id, result, now)
                            IN  IF save_raises(sub)
                                THEN Saved("caregiver_check_out", pk, upd, 500,
                                           "Time Out", {pk}, result)
                                ELSE Saved("caregiver_check_out", pk, sub, 200,
                                           "Time Out", {pk}, result)

(***************************************************************************)
(* VisitDetailView                                                         *)
(***************************************************************************)
VisitDetailView_get(pk, requester) ==
    /\ Tick
    /\ request' = From(requester, "none")
    /\ LET access == get_object(pk, requester) IN
       Answer("get", pk, IF access # 0 THEN access ELSE 200)

VisitDetailView_patch_check_in(pk, requester) ==
    /\ Tick
    /\ request' = From(requester, "none")
    /\ LET access == get_object(pk, requester) IN
       IF access # 0
       THEN Answer("patch_check_in", pk, access)
       ELSE Saved("patch_check_in", pk, add_call(visits[pk], "Time In", now),
                  200, "Time In", {}, NoResult)

\* status_code values after which _submit_visit_to_evv marks the visit.
submit_marks(result) == result.status_code = 200

Optional(field, current) == IF field = "absent" THEN current ELSE field = "true"

VisitDetailView_patch_check_out(pk, requester, location) ==
    /\ Tick
    /\ request' = From(requester, location)
    /\ LET access == get_object(pk, requester) IN
       IF access # 0
       THEN Answer("patch_check_out", pk, access)
       ELSE \E times \in Flags, service \in Flags :
              LET out == add_call(visits[pk], "Time Out", now)
                  upd == [out EXCEPT
                            !.client_verified_times = Optional(times, @),
                            !.client_verified_service = Optional(service, @)]
              IN  \* auto_submit_to_evv absent or false
                  \/ Saved("patch_check_out", pk, upd, 200, "Time Out", {}, NoResult)
                  \* auto_submit_to_evv true: _submit_visit_to_evv
                  \/ \E result \in UploadResults :
                       IF ~submit_marks(result)
                       THEN Saved("patch_check_out", pk,
                                  add_evv_error(upd, "EVV upload failed", now),
                                  200, "Time Out", {pk}, result)
                       ELSE LET sub == mark_submitted_to_evv(upd, result.id, result, now)
                            IN  IF save_raises(sub)
                                \* the save raises, and so does the save of
                                \* add_evv_error in the except branch: 500
                                THEN Saved("patch_check_out", pk, upd, 500,
                                           "Time Out", {pk}, result)
                                ELSE Saved("patch_check_out", pk, sub, 200,
                                           "Time Out", {pk}, result)

\* The general update: VisitSerializer(visit, data, partial=True).save().
VisitSerializer_update(v, schedule) == [v EXCEPT !.schedule_set = schedule]

VisitDetailView_patch_general(pk, requester) ==
    /\ Tick
    /\ request' = From(requester, "none")
    /\ LET access == get_object(pk, requester) IN
       IF access # 0
       THEN Answer("patch_general", pk, access)
       ELSE \E schedule \in BOOLEAN :
              Saved("patch_general", pk, VisitSerializer_update(visits[pk], schedule),
                    200, "", {}, NoResult)

\* delete without the is_completed check.
VisitDetailView_delete_unguarded(pk, requester) ==
    /\ Tick
    /\ request' = From(requester, "none")
    /\ LET access == get_object(pk, requester) IN
       IF access # 0
       THEN Answer("delete", pk, access)
       ELSE Saved("delete", pk, [visits[pk] EXCEPT !.visit_type = "cancelled"],
                  200, "", {}, NoResult)

VisitDetailView_delete(pk, requester) ==
    /\ Tick
    /\ request' = From(requester, "none")
    /\ LET access == get_object(pk, requester) IN
       IF access # 0
       THEN Answer("delete", pk, access)
       ELSE IF ~is_completed(visits[pk])
       THEN Saved("delete", pk, [visits[pk] EXCEPT !.visit_type = "cancelled"],
                  200, "", {}, NoResult)
       ELSE Answer("delete", pk, 400)

(***************************************************************************)
(* SendVisitsToEVV.post                                                    *)
(***************************************************************************)
\* visits_qs without the submitted_to_evv filter.
send_visits_qs_unfiltered(send_type, visit_ids) ==
    { pk \in rows :
        /\ visits[pk].visit_type =
              (IF send_type = "schedules_only" THEN "scheduled" ELSE "completed")
        /\ (visit_ids # {} => pk \in visit_ids) }

\* visits_qs: the query on visit_type and submitted_to_evv, narrowed to
\* visit_ids when the request names any.
send_visits_qs(send_type, visit_ids) ==
    { pk \in rows :
        /\ visits[pk].visit_type =
              (IF send_type = "schedules_only" THEN "scheduled" ELSE "completed")
        /\ visits[pk].submitted_to_evv = FALSE
        /\ (visit_ids # {} => pk \in visit_ids) }

\* The visits of visits_qs whose record goes into the payload.
send_payload(qs) ==
    { pk \in qs : validate_for_evv(visits[pk], clients[ClientOf(pk)], EmployeeSsn) = << >> }

\* status_code values after which SendVisitsToEVV marks the payload's visits.
send_marks(result) == result.status_code \in {200, 202}

SendVisitsToEVV_post(send_type, visit_ids) ==
    LET qs      == send_visits_qs(send_type, visit_ids)
        payload == send_payload(qs)
        invalid == qs \ payload
    IN  /\ Tick
        /\ request' = [NoRequest EXCEPT !.send_type = send_type, !.visit_ids = visit_ids]
        /\ UNCHANGED <<rows, clients, outsideVisits>>
        /\ IF qs = {}
           THEN /\ last' = Done("send_visits", 0, 200, "", {}, NoResult, {})
                /\ UNCHANGED visits
           ELSE IF payload = {}
           THEN /\ last' = Done("send_visits", 0, 400, "", {}, NoResult, invalid)
                /\ UNCHANGED visits
           ELSE \E result \in UploadResults :
                  IF ~send_marks(result)
                  THEN /\ last' = Done("send_visits", 0, 200, "", payload, result, invalid)
                       /\ UNCHANGED visits
                  ELSE IF result.id = NoneId
                  \* the first mark_submitted_to_evv raises: nothing is marked,
                  \* and the answer is the error of the except branch
                  THEN /\ last' = Done("send_visits", 0, 500, "", payload, result, {})
                       /\ UNCHANGED visits
                  ELSE /\ last' = Done("send_visits", 0, 200, "", payload, result, invalid)
                       /\ visits' = [pk \in VisitIds |->
                                       IF pk \in payload
                                       THEN mark_submitted_to_evv(visits[pk], result.id,
                                                                  result, now)
                                       ELSE visits[pk]]

(***************************************************************************)
(* VisitAdmin actions, each on the selected queryset.                      *)
(***************************************************************************)
AdminResponse == [status_code |-> 0, id |-> "ADMIN"]

admin_mark(v, t) ==
    IF ~v.submitted_to_evv /\ can_submit_to_evv(v)
    THEN mark_submitted_to_evv(v, "ADMIN", AdminResponse, t)
    ELSE v

admin_reset(v) ==
    [v EXCEPT !.submitted_to_evv = FALSE,
              !.evv_submission_id = "",
              !.evv_submission_date = NoTime,
              !.evv_response = NoResult]

\* convert_to_completed converting every visit that is not yet completed.
admin_convert_any(v, t) ==
    IF v.visit_type \in {"scheduled", "in_progress"}
    THEN [v EXCEPT !.visit_type = "completed",
                   !.calls = IF @ = << >>
                             THEN << [call_assignment |-> "Time In", call_date_time |-> t],
                                     [call_assignment |-> "Time Out", call_date_time |-> t] >>
                             ELSE @]
    ELSE v

admin_convert(v, t) ==
    IF v.visit_type = "scheduled"
    THEN [v EXCEPT !.visit_type = "completed",
                   !.calls = IF @ = << >>
                             THEN << [call_assignment |-> "Time In", call_date_time |-> t],
                                     [call_assignment |-> "Time Out", call_date_time |-> t] >>
                             ELSE @]
    ELSE v

VisitAdmin_mark_as_submitted_to_evv(queryset) ==
    /\ Tick
    /\ request' = NoRequest
    /\ visits' = [pk \in VisitIds |->
                    IF pk \in queryset THEN admin_mark(visits[pk], now) ELSE visits[pk]]
    /\ last' = Done("admin_mark_as_submitted", 0, 0, "", {}, NoResult, {})
    /\ UNCHANGED <<rows, clients, outsideVisits>>

VisitAdmin_reset_evv_submission(queryset) ==
    /\ Tick
    /\ request' = NoRequest
    /\ visits' = [pk \in VisitIds |->
                    IF pk \in queryset THEN admin_reset(visits[pk]) ELSE visits[pk]]
    /\ last' = Done("admin_reset", 0, 0, "", {}, NoResult, {})
    /\ UNCHANGED <<rows, clients, outsideVisits>>

VisitAdmin_convert_to_completed(queryset) ==
    /\ Tick
    /\ request' = NoRequest
    /\ visits' = [pk \in VisitIds |->
                    IF pk \in queryset THEN admin_convert(visits[pk], now) ELSE visits[pk]]
    /\ last' = Done("admin_convert", 0, 0, "", {}, NoResult, {})
    /\ UNCHANGED <<rows, clients, outsideVisits>>

(***************************************************************************)
(* The specification.                                                      *)
(***************************************************************************)
\* An admin action runs on a non-empty selection of rows.
Selections == (SUBSET rows) \ {{}}

SendTypes == {"schedules_only", "completed_visits"}

Next ==
    \/ \E pk \in VisitIds : \E r \in Requesters :
          CaregiverOperationsView_check_in(pk, r)
    \/ \E pk \in VisitIds : \E r \in Requesters : \E loc \in Locations :
          CaregiverOperationsView_check_out(pk, r, loc)
    \/ \E pk \in VisitIds : \E r \in Requesters :
          VisitDetailView_get(pk, r)
    \/ \E pk \in VisitIds : \E r \in Requesters :
          VisitDetailView_patch_check_in(pk, r)
    \/ \E pk \in VisitIds : \E r \in Requesters : \E loc \in Locations :
          VisitDetailView_patch_check_out(pk, r, loc)
    \/ \E pk \in VisitIds : \E r \in Requesters :
          VisitDetailView_patch_general(pk, r)
    \/ \E pk \in VisitIds : \E r \in Requesters :
          VisitDetailView_delete(pk, r)
    \/ \E st \in SendTypes, ids \in SUBSET VisitIds : SendVisitsToEVV_post(st, ids)
    \/ \E q \in Selections : VisitAdmin_mark_as_submitted_to_evv(q)
    \/ \E q \in Selections : VisitAdmin_reset_evv_submission(q)
    \/ \E q \in Selections : VisitAdmin_convert_to_completed(q)

Spec == Init /\ [][Next]_vars

(***************************************************************************)
(* EVVService: the outbound HTTP client.                                   *)
(***************************************************************************)
\* What requests.get / requests.post can do: raise a RequestException
\* (timeout, connection error) or hand back a response with a status and a
\* body that is empty, not JSON, or JSON.
TransportFailures == {"timeout", "connection"}

Bodies == {"empty", "text", "json"}

HttpStatuses == {200, 404}

Outcomes ==
    { [kind |-> k, status |-> 0] : k \in TransportFailures }
    \cup { [kind |-> b, status |-> c] : b \in Bodies, c \in HttpStatuses }

\* An exception that leaves the method: the caller gets no envelope.
Raised == [exception |-> "ValueError"]

\* _safe_parse_response without its except ValueError.
safe_parse_response_unguarded(o) ==
    IF o.kind = "empty" THEN "Empty response received"
    ELSE IF o.kind = "json" THEN "json"
    ELSE "ValueError"

\* _safe_parse_response: the parsed body, a message for an empty body, an
\* error description for a body that is not JSON.
safe_parse_response(o) ==
    IF o.kind = "empty" THEN "Empty response received"
    ELSE IF o.kind = "json" THEN "json"
    ELSE "Invalid JSON response"

\* EVVService.send: its except clause catches RequestException only.
send(o) ==
    IF o.kind \in TransportFailures
    THEN [status_code |-> 500, response |-> "Request failed"]
    ELSE LET response_data == safe_parse_response(o)
         IN  IF response_data = "ValueError"
             THEN Raised
             ELSE [status_code |-> o.status, response |-> response_data]

UploadOps == {"upload_clients", "upload_employees", "upload_xrefs", "upload_visits"}

\* The argument of an upload_* method: a list, a dict with the entity's key
\* ('Clients', 'Visits', ...), another dict, or neither a list nor a dict.
Shapes == {"list", "keyed", "dict", "other"}

UploadPath(op) ==
    CASE op = "upload_clients"   -> "/clients/upload"
      [] op = "upload_employees" -> "/employees/upload"
      [] op = "upload_xrefs"     -> "/xrefs/upload"
      [] op = "upload_visits"    -> "/visits/upload"

Request(method, path, param) == [method |-> method, path |-> path, param |-> param]

\* param_variations, in the order get_upload_status tries them.
param_variations == <<"id", "uuid", "transactionId", "transactionID", "uploadId">>

Fallback == Request("GET", "/clients/upload/{transaction_id}", "")

\* Every request get_upload_status can issue, in order.
StatusPlan ==
    [i \in 1..Len(param_variations) |-> Request("GET", "/clients/status", param_variations[i])]
    \o <<Fallback>>

\* The status code a request ended with: the envelope's, or 0 without one.
CodeOf(envelope) ==
    IF "status_code" \in DOMAIN envelope THEN envelope.status_code ELSE 0

Free == svc.pc \in {"idle", "done"}

Returned(op, sent, codes, result, returned, o) ==
    [ op |-> op, pc |-> "done", sent |-> sent, codes |-> codes,
      result |-> result, returned |-> returned, outcome |-> o ]

\* A direct EVVService.send (get_account, get_status, the raw forwarders).
EVVService_send(o) ==
    /\ Free
    /\ svc' = Returned("send", <<Request("GET", "/management/account-id", "")>>,
                       <<CodeOf(send(o))>>, NoEnvelope, send(o), o)
    /\ UNCHANGED outsideService

\* upload_clients, upload_employees, upload_xrefs, upload_visits: one send,
\* inside try / except Exception.
EVVService_upload(op, shape, o) ==
    /\ Free
    /\ IF shape = "other"
       THEN svc' = Returned(op, << >>, << >>, NoEnvelope,
                            [status_code |-> 400, response |-> "Invalid payload format"],
                            NoOutcome)
       ELSE LET r == send(o)
                e == IF r = Raised
                     THEN [status_code |-> 500, response |-> "Internal server error"]
                     ELSE r
            IN  svc' = Returned(op, <<Request("POST", UploadPath(op), "")>>,
                                <<CodeOf(r)>>, NoEnvelope, e, o)
    /\ UNCHANGED outsideService

get_upload_status_begin ==
    /\ Free
    /\ svc' = [NoCall EXCEPT !.op = "get_upload_status", !.pc = "variants"]
    /\ UNCHANGED outsideService

\* The loop body that tries the next variant even after a 200.
variant_keeps_going(s, o) ==
    LET r    == send(o)
        sent == Append(s.sent, StatusPlan[Len(s.sent) + 1])
        cds  == Append(s.codes, CodeOf(r))
    IN  IF r = Raised
        THEN Returned(s.op, sent, cds, s.result, Raised, o)
        ELSE [s EXCEPT !.sent = sent, !.codes = cds, !.result = r, !.outcome = o,
                       !.pc = IF Len(sent) = Len(param_variations)
                              THEN "fallback" ELSE "variants"]

\* One round of the loop over param_variations: the call after it.
variant(s, o) ==
    LET r    == send(o)
        sent == Append(s.sent, StatusPlan[Len(s.sent) + 1])
        cds  == Append(s.codes, CodeOf(r))
    IN  IF r = Raised
        THEN Returned(s.op, sent, cds, s.result, Raised, o)
        ELSE IF r.status_code = 200
        THEN Returned(s.op, sent, cds, r, r, o)
        ELSE [s EXCEPT !.sent = sent, !.codes = cds, !.result = r, !.outcome = o,
                       !.pc = IF Len(sent) = Len(param_variations)
                              THEN "fallback" ELSE "variants"]

get_upload_status_variant(o) ==
    /\ svc.pc = "variants"
    /\ svc' = variant(svc, o)
    /\ UNCHANGED outsideService

\* The direct endpoint, tried after every variant failed: response.json() of
\* a body that is not JSON raises, like a transport failure, into the
\* except Exception, which returns the last variant's result.
fallback(s, o) ==
    LET sent == Append(s.sent, Fallback)
    IN  IF o.kind \in TransportFailures \/ o.kind = "text"
        THEN Returned(s.op, sent, Append(s.codes, 0), s.result, s.result, o)
        ELSE LET r == [status_code |-> o.status,
                       response |-> IF o.kind = "json" THEN "json" ELSE "{}"]
             IN  Returned(s.op, sent, Append(s.codes, o.status), s.result, r, o)

get_upload_status_fallback(o) ==
    /\ svc.pc = "fallback"
    /\ svc' = fallback(svc, o)
    /\ UNCHANGED outsideService

\* The visits at rest, while the outbound client is looked at on its own.
VisitsAtRest ==
    /\ rows = VisitIds
    /\ visits = [pk \in VisitIds |-> NewVisit(pk, TRUE)]
    /\ clients = [c \in {"c1"} |-> [medicaid_id |-> <<"A", "1", "2", "3", "4", "5", "6", "7", "8">>]]
    /\ now = 1
    /\ last = NoOp
    /\ request = NoRequest

ServiceInit ==
    /\ svc = NoCall
    /\ VisitsAtRest
    /\ XrefsAtRest
    /\ SendsAtRest
    /\ AccountsAtRest
    /\ EmployeesAtRest
    /\ TimeAtRest
    /\ IdsAtRest

ServiceNext ==
    \/ \E o \in Outcomes : EVVService_send(o)
    \/ \E op \in UploadOps, shape \in Shapes, o \in Outcomes : EVVService_upload(op, shape, o)
    \/ get_upload_status_begin
    \/ \E o \in Outcomes : get_upload_status_variant(o)
    \/ \E o \in Outcomes : get_upload_status_fallback(o)

ServiceSpec == ServiceInit /\ [][ServiceNext]_vars

(***************************************************************************)
(* ClientEmployeeXref: the sequence counter.                               *)
(***************************************************************************)
\* Dates are days 1, 2; a null DateField is NoDate.
NoDate == 0

Days == {1, 2}

\* The value an attribute holds before save(): a date object (loaded from
\* the row, or set by Python code), a str (taken from request.data) or None.
DateObj(day) == [type |-> IF day = NoDate THEN "none" ELSE "date", day |-> day]

DateStr(day) == [type |-> "str", day |-> day]

\* attribute != existing.attribute, the row's value being a date or None: a
\* str never equals either.
differs(value, stored) ==
    IF value.type = "str" THEN TRUE ELSE value.day # stored

\* ClientEmployeeXref.save of an instance with these attributes, `existing`
\* being the row (NoXref for a new instance): the row after the save.
save_xref(existing, sequence_id, start_date, end_date, live_in, relationship) ==
    [ existing EXCEPT
        !.pk           = IF @ = 0 THEN 1 ELSE @,
        !.sequence_id  = IF existing.pk # 0
                            /\ (\/ differs(start_date, existing.start_date)
                                \/ differs(end_date, existing.end_date)
                                \/ live_in # existing.live_in
                                \/ relationship # existing.relationship)
                         THEN existing.sequence_id + 1
                         ELSE sequence_id,
        !.start_date   = start_date.day,
        !.end_date     = end_date.day,
        !.live_in      = live_in,
        !.relationship = relationship ]

\* request.data.get(key, default) for a key that may be absent.
Get(value, default) == IF value = "absent" THEN default ELSE value

\* The end_date of a request: absent, JSON null, or a date string.
EndDates ==
    {[given |-> "absent", day |-> NoDate], [given |-> "null", day |-> NoDate]}
        \cup {[given |-> "str", day |-> d] : d \in Days}

EndValue(end, current) ==
    IF end.given = "absent" THEN DateObj(current)
    ELSE IF end.given = "null" THEN DateObj(NoDate)
    ELSE DateStr(end.day)

LiveIns == {"Yes", "No"}

Relationships == {"Other", "Spouse"}

XrefBelowBound == xref.sequence_id < MaxSequenceId

\* XrefView.post with a client and an employee that exist: create the link
\* or update the one there is.
XrefView_post(start, end, live_in, relationship) ==
    /\ XrefBelowBound
    /\ IF xref.pk # 0
       THEN /\ xref' = save_xref(xref, xref.sequence_id + 1,
                                 DateStr(start), EndValue(end, xref.end_date),
                                 Get(live_in, "No"), Get(relationship, "Other"))
            /\ xlast' = [op |-> "xref_post", http |-> 200]
       ELSE /\ xref' = save_xref(NoXref, 1, DateStr(start), EndValue(end, NoDate),
                                 Get(live_in, "No"), Get(relationship, "Other"))
            /\ xlast' = [op |-> "xref_post", http |-> 201]
    /\ UNCHANGED outsideXrefs

\* UpdateXrefRelationship.put
UpdateXrefRelationship_put(end) ==
    /\ XrefBelowBound
    /\ IF xref.pk = 0
       THEN /\ xlast' = [op |-> "xref_put", http |-> 404]
            /\ UNCHANGED xref
       ELSE IF end.given = "absent"
       THEN /\ xlast' = [op |-> "xref_put", http |-> 400]
            /\ UNCHANGED xref
       ELSE /\ xref' = save_xref(xref, xref.sequence_id, DateObj(xref.start_date),
                                 EndValue(end, xref.end_date),
                                 xref.live_in, xref.relationship)
            \* the upload that follows the save answers 200 or raises
            /\ \E http \in {200, 500} : xlast' = [op |-> "xref_put", http |-> http]
    /\ UNCHANGED outsideXrefs

\* A save by Python code that loaded the row and set date objects (the
\* submission bookkeeping of SendXrefsToEVV changes no tracked field).
ClientEmployeeXref_save(start, end, live_in, relationship) ==
    /\ XrefBelowBound
    /\ xref.pk # 0
    /\ xref' = save_xref(xref, xref.sequence_id, DateObj(start), DateObj(end),
                         live_in, relationship)
    /\ xlast' = [op |-> "save", http |-> 0]
    /\ UNCHANGED outsideXrefs

XrefInit ==
    /\ XrefsAtRest
    /\ svc = NoCall
    /\ VisitsAtRest
    /\ SendsAtRest
    /\ AccountsAtRest
    /\ EmployeesAtRest
    /\ TimeAtRest
    /\ IdsAtRest

XrefNext ==
    \/ \E start \in Days, end \in EndDates,
          live_in \in LiveIns \cup {"absent"}, relationship \in Relationships \cup {"absent"} :
          XrefView_post(start, end, live_in, relationship)
    \/ \E end \in EndDates : UpdateXrefRelationship_put(end)
    \/ \E start \in Days, end \in Days \cup {NoDate},
          live_in \in LiveIns, relationship \in Relationships :
          ClientEmployeeXref_save(start, end, live_in, relationship)

XrefSpec == XrefInit /\ [][XrefNext]_vars

(***************************************************************************)
(* The payload builders: SendClientsToEVV and SendXrefsToEVV.              *)
(***************************************************************************)
UpperLetters ==
    { "A", "B", "C", "D", "E", "F", "G", "H", "I", "J", "K", "L", "M",
      "N", "O", "P", "Q", "R", "S", "T", "U", "V", "W", "X", "Y", "Z" }

LowerLetters ==
    { "a", "b", "c", "d", "e", "f", "g", "h", "i", "j", "k", "l", "m",
      "n", "o", "p", "q", "r", "s", "t", "u", "v", "w", "x", "y", "z" }

Whitespace == {" ", "\t", "\n"}

\* NAME_RE.match(s): ^[A-Za-z \-']+$
MatchName(s) ==
    LET body == IF Len(s) > 1 /\ s[Len(s)] = "\n" THEN SubSeq(s, 1, Len(s) - 1) ELSE s
    IN  /\ Len(body) >= 1
        /\ \A i \in 1..Len(body) :
              body[i] \in UpperLetters \cup LowerLetters \cup {" ", "-", "'"}

\* MEDICAID_RE.match(s): ^[A-Z][0-9]{8}$
MatchMedicaid(s) ==
    /\ Len(s) = 9 \/ (Len(s) = 10 /\ s[10] = "\n")
    /\ s[1] \in UpperLetters
    /\ \A i \in 2..9 : s[i] \in Digits

RECURSIVE lstrip(_)
lstrip(s) ==
    IF s # << >> /\ Head(s) \in Whitespace THEN lstrip(Tail(s)) ELSE s

RECURSIVE rstrip(_)
rstrip(s) ==
    IF s # << >> /\ s[Len(s)] \in Whitespace THEN rstrip(SubSeq(s, 1, Len(s) - 1)) ELSE s

\* safe_str(val): (val or "").strip()
safe_str(val) == lstrip(rstrip(IF val.null THEN << >> ELSE val.chars))

DigitChar(d) == <<"0", "1", "2", "3", "4", "5", "6", "7", "8", "9">>[d + 1]

\* str(n) of a natural number
RECURSIVE str_int(_)
str_int(n) ==
    IF n < 10 THEN <<DigitChar(n)>> ELSE Append(str_int(n \div 10), DigitChar(n % 10))

RECURSIVE zfill(_, _)
zfill(s, width) == IF Len(s) >= width THEN s ELSE zfill(<<"0">> \o s, width)

\* build_test_medicaid_id_from_pk(pk): f"A{str(pk).zfill(8)}"[:9]
build_test_medicaid_id_from_pk(pk) ==
    LET s == <<"A">> \o zfill(str_int(pk), 8)
    IN  SubSeq(s, 1, IF Len(s) < 9 THEN Len(s) ELSE 9)

\* format_date_mmddyyyy(d): MM/DD/YYYY
format_date_mmddyyyy(d) ==
    zfill(str_int(d.month), 2) \o <<"/">> \o zfill(str_int(d.day), 2)
        \o <<"/">> \o zfill(str_int(d.year), 4)

\* JSON values of a payload: null, a string, a number, a mapping.
Str(s) == [k |-> "str", v |-> s]

Num(n) == [k |-> "num", v |-> n]

Map(f) == [k |-> "map", v |-> f]

\* None stays null, a string stays a string.
Json(val) == IF val.null THEN Null ELSE Str(val.chars)

\* {k: v for k, v in record.items() if v is not None}
without_none(record) ==
    [key \in {k \in DOMAIN record : record[k].k # "null"} |-> record[key]]

ClientPks == {1, 2}

\* Client.medicaid_id values: null, empty, blank, well formed with an "A"
\* and with another letter, lower case.
ClientMedicaidIds ==
    { None, Chars(<< >>), Chars(<<" ">>),
      Chars(<<"A", "1", "2", "3", "4", "5", "6", "7", "8">>),
      Chars(<<"B", "1", "2", "3", "4", "5", "6", "7", "8">>),
      Chars(<<"a", "1", "2", "3", "4", "5", "6", "7", "8">>) }

FirstNames == { <<"A", "n", "n">>, << >> }

\* settings.EVV_PROVIDER_ID, None when the setting is absent.
ProviderIds == { None, Chars(<<"2", "1", "1", "1", "0", "8">>) }

NameErrors(name, required, malformed) ==
    IF name = << >>
    THEN <<required>>
    ELSE ErrIf(Len(name) > 30 \/ ~MatchName(name), malformed)

\* The medicaid id SendClientsToEVV works with: the client's own, or the
\* generated one when the client has none.
client_medicaid(c) ==
    IF safe_str(c.medicaid_id) # << >>
    THEN safe_str(c.medicaid_id)
    ELSE build_test_medicaid_id_from_pk(c.pk)

\* The errors SendClientsToEVV.post collects for one client.
client_errors(c) ==
    NameErrors(safe_str(Chars(c.first_name)), "First name is required",
               "First name must be <=30 chars and contain only letters, spaces, hyphen, apostrophe")
    \o NameErrors(safe_str(Chars(c.last_name)), "Last name is required",
                  "Last name must be <=30 chars and contain only letters, spaces, hyphen, apostrophe")
    \o ErrIf(safe_str(c.medicaid_id) # << >> /\ ~MatchMedicaid(safe_str(c.medicaid_id)),
             "medicaid_id must be uppercase letter + 8 digits (e.g. A12345678)")
    \o ErrIf(Len(client_medicaid(c)) > 20, "ClientCustomID must be <=20 characters")
    \o ErrIf(c.assent_plan \notin {"Yes", "No"}, "assent_plan must be 'Yes' or 'No'")

\* The record SendClientsToEVV.post emits for one client.
client_record(c, seq, provider_id) ==
    without_none(
        [ ProviderIdentification |->
              Map([ ProviderQualifier |-> Str("MedicaidID"),
                    ProviderID |-> Json(provider_id) ]),
          ClientOtherID          |-> Str(c.client_id),
          SequenceID             |-> Num(seq),
          ClientID               |-> Str(c.client_id),
          ClientCustomID         |-> Str(client_medicaid(c)),
          ClientQualifier        |-> Str("ClientCustomID"),
          ClientFirstName        |-> Str(safe_str(Chars(c.first_name))),
          ClientLastName         |-> Str(safe_str(Chars(c.last_name))),
          ClientMedicaidID       |-> Str(client_medicaid(c)),
          ClientIdentifier       |-> Str(client_medicaid(c)),
          ClientTimezone         |-> Str(c.timezone),
          ProviderAssentContPlan |-> Str(c.assent_plan),
          MissingMedicaidID      |-> Str(IF client_medicaid(c) # << >> THEN "False" ELSE "True"),
          ClientActiveIndicator  |-> Str("Yes"),
          Person                 |->
              Map([ PersonName |-> Map([ PersonFirstName |-> Str(safe_str(Chars(c.first_name))),
                                         PersonLastName  |-> Str(safe_str(Chars(c.last_name))) ]),
                    PersonDateOfBirth |-> Str(format_date_mmddyyyy(c.dob)) ]) ])

\* The loop of SendClientsToEVV.post over the clients pk..n, in pk order:
\* the payload and the diagnostics it ends with.
RECURSIVE build_clients(_, _, _, _, _)
build_clients(table, pk, payload, invalid_records, provider_id) ==
    IF pk \notin DOMAIN table
    THEN [payload |-> payload, invalid_records |-> invalid_records]
    ELSE LET c == table[pk]
             errors == client_errors(c)
         IN  IF errors # << >>
             THEN build_clients(table, pk + 1, payload,
                                Append(invalid_records,
                                       [client_id |-> c.client_id, pk |-> pk, errors |-> errors]),
                                provider_id)
             ELSE build_clients(table, pk + 1,
                                Append(payload, client_record(c, Len(payload) + 1, provider_id)),
                                invalid_records, provider_id)

\* SendClientsToEVV.post
SendClientsToEVV_post ==
    /\ slast' =
          IF DOMAIN ctable = {}
          THEN [op |-> "send_clients", http |-> 404, sent |-> << >>, invalid |-> << >>]
          ELSE LET built == build_clients(ctable, 1, << >>, << >>, provider)
               IN  IF built.payload = << >>
                   THEN [ op |-> "send_clients", http |-> 400, sent |-> << >>,
                          invalid |-> built.invalid_records ]
                   ELSE [ op |-> "send_clients", http |-> 200, sent |-> built.payload,
                          invalid |-> built.invalid_records ]
    /\ UNCHANGED <<ctable, provider, outsideSends>>

\* date.today()
Today == 2

allowed_procedure_codes == {"S5125", "T2017", "T1021", "S5130", "T1019", "S5150", "S5151"}

allowed_relationships ==
    { "Spouse", "Adult children/Stepchildren", "Son-in-law/Daughter-in-law",
      "Grandchildren", "Siblings/Step siblings", "Parents/Adoptive Parents/Legal Guardians",
      "Stepparents", "Grandparents", "Mother-in-law/Father-in-law",
      "Brother-in-law/Sister-in-law", "Other" }

\* date.isoformat(), a day standing for its date
isoformat(day) == <<"day">> \o str_int(day)

\* The errors SendXrefsToEVV.post collects for the link x of client c and an
\* employee with this ssn.
xref_errors(x, c, employee_ssn) ==
    ErrIf(c.medicaid_id.null \/ c.medicaid_id.chars = << >>
              \/ ~MatchVisitMedicaid(c.medicaid_id.chars),
          "Invalid Medicaid ID format. Must be A followed by 8 digits")
    \o ErrIf(employee_ssn = << >> \/ ~MatchSsn(employee_ssn),
             "Invalid SSN format. Must be 9 digits")
    \o ErrIf(x.procedure_code \notin allowed_procedure_codes,
             "Procedure code not allowed for live-in caregiver")
    \o ErrIf(x.relationship \notin allowed_relationships, "Relationship not in allowed list")

\* The record SendXrefsToEVV.post emits for one link; "211108" is the
\* default this handler gives an absent EVV_PROVIDER_ID.
xref_record(x, c, employee_ssn, provider_id) ==
    [ ProviderIdentification |->
          Map([ ProviderQualifier |-> Str("MedicaidID"),
                ProviderID |-> Str(IF provider_id.null
                                   THEN <<"2", "1", "1", "1", "0", "8">>
                                   ELSE provider_id.chars) ]),
      ClientIDQualifier  |-> Str("ClientMedicaidID"),
      ClientIdentifier   |-> Str(c.medicaid_id.chars),
      EmployeeQualifier  |-> Str("EmployeeSSN"),
      EmployeeIdentifier |-> Str(employee_ssn),
      XRefStartDate      |-> Str(isoformat(IF x.start_date # NoDate THEN x.start_date ELSE Today)),
      XRefEndDate        |-> IF x.end_date # NoDate THEN Str(isoformat(x.end_date)) ELSE Null,
      PayerID            |-> Str("AZDDD"),
      PayerProgram       |-> Str("AHCCCS"),
      ProcedureCode      |-> Str(x.procedure_code),
      Modifier1          |-> x.modifier1,
      Modifier2          |-> Null,
      Modifier3          |-> Null,
      Modifier4          |-> Null,
      LiveIn             |-> Str(x.live_in),
      Relationship       |-> Str(x.relationship) ]

\* SendXrefsToEVV.post, the aggregator answering with this status code: the
\* link is the one of client 1.
SendXrefsToEVV_post(status_code) ==
    IF xref.pk = 0 \/ ~(xref.end_date = NoDate \/ xref.end_date >= Today)
    THEN /\ slast' = [op |-> "send_xrefs", http |-> 200, sent |-> << >>, invalid |-> << >>]
         /\ UNCHANGED <<ctable, provider, outsideSends>>
    ELSE LET errors == xref_errors(xref, ctable[1], EmployeeSsn)
         IN  IF errors # << >>
             THEN /\ slast' = [ op |-> "send_xrefs", http |-> 400, sent |-> << >>,
                                invalid |-> <<[pk |-> xref.pk, errors |-> errors]>> ]
                  /\ UNCHANGED <<ctable, provider, outsideSends>>
             ELSE /\ slast' = [ op |-> "send_xrefs", http |-> 200,
                                sent |-> <<xref_record(xref, ctable[1], EmployeeSsn, provider)>>,
                                invalid |-> << >> ]
                  /\ xref' = IF status_code \in {200, 201}
                             THEN save_xref([xref EXCEPT !.submitted_to_evv = TRUE],
                                            xref.sequence_id,
                                            DateObj(xref.start_date), DateObj(xref.end_date),
                                            xref.live_in, xref.relationship)
                             ELSE xref
                  /\ UNCHANGED <<ctable, provider, xlast, outsideXrefsAndSends>>

SendInit ==
    /\ \E first \in [ClientPks -> FirstNames], medicaid \in [ClientPks -> ClientMedicaidIds] :
          ctable = [pk \in ClientPks |-> ClientRow(pk, first[pk], medicaid[pk])]
    /\ provider \in ProviderIds
    /\ slast = NoSend
    /\ \E end \in Days \cup {NoDate}, modifier1 \in {Null, Str("U1")},
          procedure_code \in {"T1019", "G0000"} :
          xref = [ pk |-> 1, sequence_id |-> 1, start_date |-> 1, end_date |-> end,
                   live_in |-> "Yes", relationship |-> "Spouse",
                   procedure_code |-> procedure_code, modifier1 |-> modifier1,
                   submitted_to_evv |-> FALSE ]
    /\ xlast = NoXrefOp
    /\ svc = NoCall
    /\ VisitsAtRest
    /\ AccountsAtRest
    /\ EmployeesAtRest
    /\ TimeAtRest
    /\ IdsAtRest

SendNext ==
    \/ SendClientsToEVV_post
    \/ \E status_code \in {200, 201, 500} : SendXrefsToEVV_post(status_code)

SendSpec == SendInit /\ [][SendNext]_vars

(***************************************************************************)
(* Accounts: who can change a user's role.                                 *)
(***************************************************************************)
Roles == {"admin", "caregiver"}

\* request.user of a request without credentials (AnonymousUser).
Anonymous == 0

\* User.is_admin()
is_admin(user) == user.role = "admin"

AccountAnswer(op, requester, pk, http) ==
    /\ alast' = [op |-> op, requester |-> requester, pk |-> pk, http |-> http]
    /\ UNCHANGED users

RoleSaved(op, requester, pk, role) ==
    /\ users' = [users EXCEPT ![pk].role = role]
    /\ alast' = [op |-> op, requester |-> requester, pk |-> pk, http |-> 200]

\* [permission() for permission in [IsAuthenticated] if self.request.user.is_admin()]:
\* AnonymousUser has no is_admin, an admin is checked by IsAuthenticated
\* and passes, and for anyone else the list is empty.
get_permissions(requester) ==
    IF requester = Anonymous THEN "raises" ELSE "passes"

\* UserProfileView: PUT or PATCH of the requester's own account with a role
\* among the fields.
UserProfileView_update(requester, role) ==
    /\ IF requester = Anonymous
       THEN AccountAnswer("profile_update", requester, 0, 401)
       ELSE RoleSaved("profile_update", requester, requester, role)
    /\ UNCHANGED outsideAccounts

\* UpdateUserRoleView.update
UpdateUserRoleView_update(requester, pk, role) ==
    /\ IF get_permissions(requester) = "raises"
       THEN AccountAnswer("update_role_view", requester, pk, 500)
       ELSE IF ~is_admin(users[requester])
       THEN AccountAnswer("update_role_view", requester, pk, 403)
       ELSE IF pk = requester
       THEN AccountAnswer("update_role_view", requester, pk, 400)
       ELSE RoleSaved("update_role_view", requester, pk, role)
    /\ UNCHANGED outsideAccounts

\* UserViewSet.update and partial_update with a role among the fields.
UserViewSet_update(requester, pk, role) ==
    /\ IF get_permissions(requester) = "raises"
       THEN AccountAnswer("viewset_update", requester, pk, 500)
       ELSE RoleSaved("viewset_update", requester, pk, role)
    /\ UNCHANGED outsideAccounts

\* UserViewSet.update_role
UserViewSet_update_role(requester, pk, role) ==
    /\ IF get_permissions(requester) = "raises"
       THEN AccountAnswer("viewset_update_role", requester, pk, 500)
       ELSE RoleSaved("viewset_update_role", requester, pk, role)
    /\ UNCHANGED outsideAccounts

AccountsInit ==
    /\ users \in [UserIds -> [role : Roles]]
    /\ alast = NoAccountOp
    /\ svc = NoCall
    /\ VisitsAtRest
    /\ XrefsAtRest
    /\ SendsAtRest
    /\ EmployeesAtRest
    /\ TimeAtRest
    /\ IdsAtRest

AccountsNext ==
    \/ \E requester \in UserIds \cup {Anonymous}, role \in Roles :
          UserProfileView_update(requester, role)
    \/ \E requester \in UserIds \cup {Anonymous}, pk \in UserIds, role \in Roles :
          UpdateUserRoleView_update(requester, pk, role)
    \/ \E requester \in UserIds \cup {Anonymous}, pk \in UserIds, role \in Roles :
          UserViewSet_update(requester, pk, role)
    \/ \E requester \in UserIds \cup {Anonymous}, pk \in UserIds, role \in Roles :
          UserViewSet_update_role(requester, pk, role)

AccountsSpec == AccountsInit /\ [][AccountsNext]_vars

(***************************************************************************)
(* Employee and its linked User: the post_save hooks of evv/signals.py.    *)
(***************************************************************************)
Emails == {"ann@example.com", "bob@example.com"}

Names == {"Ann Doe", "Bob Roe"}

\* The User rows that exist; a deleted row keeps its place, so that a
\* primary key is never given twice.
Existing(accts) == {uid \in 1..Len(accts) : ~accts[uid].deleted}

\* User.objects.filter(email=email).first(), 0 when there is none.
user_with_email(accts, email) ==
    IF \E uid \in Existing(accts) : accts[uid].email = email
    THEN CHOOSE uid \in Existing(accts) :
            /\ accts[uid].email = email
            /\ \A other \in Existing(accts) : accts[other].email = email => uid <= other
    ELSE 0

\* hasattr(user, 'employee_profile'): an Employee row links to the user.
has_employee_profile(emps, uid) ==
    \E pk \in 1..Len(emps) : emps[pk].user = uid

\* What a save and the hooks it triggers have done so far: the two tables,
\* whether an exception left the chain, and how many times the hooks ran.
Chain(emps, accts) == [employees |-> emps, accounts |-> accts, raised |-> FALSE, runs |-> 0]

\* User.objects.create_user: email is the USERNAME_FIELD and unique, so a
\* second user with an email in use raises IntegrityError.
create_user(st, email, name, role) ==
    IF user_with_email(st.accounts, email) # 0
    THEN [st EXCEPT !.raised = TRUE]
    ELSE [st EXCEPT !.accounts = Append(@, [email |-> email, name |-> name,
                                             role |-> role, deleted |-> FALSE])]

\* update_user_from_employee: sync the linked user's name, then its email.
update_user_from_employee(st, pk) ==
    LET e == st.employees[pk]
    IN  IF e.user = 0 THEN st
        ELSE LET named == [st EXCEPT !.accounts[e.user].name = e.name]
             IN  IF named.accounts[e.user].email = e.email THEN named
                 ELSE IF user_with_email(named.accounts, e.email) # 0
                 THEN [named EXCEPT !.raised = TRUE]
                 ELSE [named EXCEPT !.accounts[e.user].email = e.email]

RECURSIVE post_save(_, _, _)

\* create_user_for_employee: for a new employee without a user, create the
\* user, link it and save the employee again, which sends post_save again.
create_user_for_employee(st, pk, created) ==
    LET e == st.employees[pk]
    IN  IF created /\ e.user = 0
        THEN LET made == create_user(st, e.email, e.name, "caregiver")
             IN  IF made.raised THEN made
                 ELSE post_save([made EXCEPT !.employees[pk].user = Len(made.accounts)],
                                pk, FALSE)
        ELSE st

\* post_save of Employee: the two receivers in the order they are connected;
\* an exception in the first leaves the second out.
post_save(st, pk, created) ==
    LET first == create_user_for_employee([st EXCEPT !.runs = @ + 1], pk, created)
    IN  IF first.raised THEN first ELSE update_user_from_employee(first, pk)

EmployeeAnswer(op, pk, http, st) ==
    /\ elast' = [op |-> op, pk |-> pk, http |-> http, runs |-> st.runs]
    /\ employees' = st.employees
    /\ accounts' = st.accounts

EmployeesBelowBound == Len(employees) < MaxEmployees

\* EmployeeView.create: the row is inserted, then the hooks run; nothing
\* rolls the row back when a hook raises.
EmployeeView_create(email, name) ==
    /\ EmployeesBelowBound
    /\ LET existing_user == user_with_email(accounts, email)
           pk == Len(employees) + 1
       IN  IF existing_user # 0 /\ ~has_employee_profile(employees, existing_user)
           THEN EmployeeAnswer("employee_create", 0, 400, Chain(employees, accounts))
           ELSE LET inserted == Append(employees, [email |-> email, name |-> name, user |-> 0])
                    st == post_save(Chain(inserted, accounts), pk, TRUE)
                IN  EmployeeAnswer("employee_create", pk,
                                   IF st.raised THEN 500 ELSE 201, st)
    /\ UNCHANGED outsideEmployees

\* EmployeeAdmin: an edit of the employee's email and name, saved.
EmployeeAdmin_save(pk, email, name) ==
    /\ pk \in 1..Len(employees)
    /\ LET st == post_save(Chain([employees EXCEPT ![pk].email = email, ![pk].name = name],
                                 accounts), pk, FALSE)
       IN  EmployeeAnswer("employee_save", pk, IF st.raised THEN 500 ELSE 200, st)
    /\ UNCHANGED outsideEmployees

\* CreateUserForEmployeeView.post by an authenticated user.
CreateUserForEmployeeView_post(employee_id) ==
    /\ IF employee_id \notin 1..Len(employees)
       THEN EmployeeAnswer("create_user_for_employee", employee_id, 404,
                           Chain(employees, accounts))
       ELSE IF employees[employee_id].user # 0
       THEN EmployeeAnswer("create_user_for_employee", employee_id, 400,
                           Chain(employees, accounts))
       ELSE LET st == create_user_for_employee(Chain(employees, accounts), employee_id, FALSE)
            IN  EmployeeAnswer("create_user_for_employee", employee_id,
                               IF st.raised THEN 500 ELSE 201, st)
    /\ UNCHANGED outsideEmployees

\* A user is deleted (UserViewSet.destroy): Employee.user is SET_NULL.
User_delete(uid) ==
    /\ uid \in Existing(accounts)
    /\ accounts' = [accounts EXCEPT ![uid].deleted = TRUE]
    /\ employees' = [pk \in 1..Len(employees) |->
                        IF employees[pk].user = uid
                        THEN [employees[pk] EXCEPT !.user = 0]
                        ELSE employees[pk]]
    /\ elast' = [op |-> "user_delete", pk |-> uid, http |-> 204, runs |-> 0]
    /\ UNCHANGED outsideEmployees

EmployeeInit ==
    /\ employees = << >>
    /\ accounts \in { << >>,
                      <<[email |-> "ann@example.com", name |-> "Ann Doe",
                         role |-> "caregiver", deleted |-> FALSE]>> }
    /\ elast = NoEmployeeOp
    /\ svc = NoCall
    /\ VisitsAtRest
    /\ XrefsAtRest
    /\ SendsAtRest
    /\ AccountsAtRest
    /\ TimeAtRest
    /\ IdsAtRest

EmployeeNext ==
    \/ \E email \in Emails, name \in Names : EmployeeView_create(email, name)
    \/ \E pk \in 1..MaxEmployees, email \in Emails, name \in Names :
          EmployeeAdmin_save(pk, email, name)
    \/ \E employee_id \in 1..MaxEmployees : CreateUserForEmployeeView_post(employee_id)
    \/ \E uid \in 1..(MaxEmployees + 1) : User_delete(uid)

EmployeeSpec == EmployeeInit /\ [][EmployeeNext]_vars

(***************************************************************************)
(* employee: TimeRecord, CheckInView and CheckOutView.  A check-in is      *)
(* followed step by step, so that two of them can overlap.                 *)
(***************************************************************************)
TimeUsers == {1, 2}

\* The worker threads that handle check-ins.
Workers == {"w1", "w2"}

\* now.date(): a day has three instants of the clock.
date_of(t) == (t + 2) \div 3

Idle == [pc |-> "idle", user |-> 0, now |-> 0, today |-> 0]

\* TimeRecord.objects.filter(user=user, date=today)
records_of(user, today) == {r \in time_records : r.user = user /\ r.date = today}

\* round(Decimal(seconds) / Decimal(3600), 2), in hundredths of an hour:
\* Decimal rounds a half to the even neighbour.
round2(seconds) ==
    LET n == seconds * 100
        q == n \div 3600
        r == n - q * 3600
    IN  IF 2 * r > 3600 THEN q + 1
        ELSE IF 2 * r = 3600 THEN q + (q % 2)
        ELSE q

\* TimeRecord.save
save_time_record(r) ==
    IF r.check_out # NoTime
    THEN [r EXCEPT !.hours_worked = round2(total_seconds(r.check_out - r.check_in))]
    ELSE r

TimeAnswer(op, user, at, http) ==
    tlast' = [op |-> op, user |-> user, at |-> at, http |-> http]

ClockBelowBound == tnow < MaxInstant

\* CheckInView.post up to its test for a record of today.
CheckInView_post(w, user) ==
    /\ ClockBelowBound
    /\ treqs[w].pc = "idle"
    /\ tnow' = tnow + 1
    /\ IF records_of(user, date_of(tnow')) # {}
       THEN /\ TimeAnswer("check_in", user, tnow', 400)
            /\ UNCHANGED treqs
       ELSE /\ treqs' = [treqs EXCEPT ![w] = [pc |-> "full_clean", user |-> user,
                                              now |-> tnow', today |-> date_of(tnow')]]
            /\ UNCHANGED tlast
    /\ UNCHANGED <<time_records, outsideTime>>

\* time_record.full_clean(): clean() and validate_unique() look for a
\* record of the day; the ValidationError is answered as 500.
CheckInView_full_clean(w) ==
    /\ treqs[w].pc = "full_clean"
    /\ IF records_of(treqs[w].user, treqs[w].today) # {}
       THEN /\ TimeAnswer("check_in", treqs[w].user, treqs[w].now, 500)
            /\ treqs' = [treqs EXCEPT ![w] = Idle]
       ELSE /\ treqs' = [treqs EXCEPT ![w].pc = "save"]
            /\ UNCHANGED tlast
    /\ UNCHANGED <<time_records, tnow, outsideTime>>

\* time_record.save() without the unique constraint of the table.
CheckInView_save_unconstrained(w) ==
    /\ treqs[w].pc = "save"
    /\ time_records' = time_records \cup
          { [ user |-> treqs[w].user, date |-> treqs[w].today, check_in |-> treqs[w].now,
              check_out |-> NoTime, hours_worked |-> 0 ] }
    /\ TimeAnswer("check_in", treqs[w].user, treqs[w].now, 201)
    /\ treqs' = [treqs EXCEPT ![w] = Idle]
    /\ UNCHANGED <<tnow, outsideTime>>

\* time_record.save(): the INSERT; unique_together (user, date) makes it
\* raise IntegrityError when the day has a record, answered as 500.
CheckInView_save(w) ==
    /\ treqs[w].pc = "save"
    /\ IF records_of(treqs[w].user, treqs[w].today) # {}
       THEN /\ TimeAnswer("check_in", treqs[w].user, treqs[w].now, 500)
            /\ UNCHANGED time_records
       ELSE /\ time_records' = time_records \cup
                  { save_time_record(
                      [ user |-> treqs[w].user, date |-> treqs[w].today,
                        check_in |-> treqs[w].now, check_out |-> NoTime,
                        hours_worked |-> 0 ]) }
            /\ TimeAnswer("check_in", treqs[w].user, treqs[w].now, 201)
    /\ treqs' = [treqs EXCEPT ![w] = Idle]
    /\ UNCHANGED <<tnow, outsideTime>>

\* CheckOutView.post looking for today's record whatever its check_out.
CheckOutView_post_any_record(user) ==
    /\ ClockBelowBound
    /\ tnow' = tnow + 1
    /\ LET found == records_of(user, date_of(tnow'))
       IN  IF found = {}
           THEN /\ TimeAnswer("check_out", user, tnow', 400)
                /\ UNCHANGED time_records
           ELSE /\ time_records' = (time_records \ found) \cup
                      { save_time_record([r EXCEPT !.check_out = tnow']) : r \in found }
                /\ TimeAnswer("check_out", user, tnow', 200)
    /\ UNCHANGED <<treqs, outsideTime>>

\* CheckOutView.post
CheckOutView_post(user) ==
    /\ ClockBelowBound
    /\ tnow' = tnow + 1
    /\ LET found == {r \in records_of(user, date_of(tnow')) : r.check_out = NoTime}
       IN  IF found = {}
           THEN /\ TimeAnswer("check_out", user, tnow', 400)
                /\ UNCHANGED time_records
           ELSE /\ time_records' = (time_records \ found) \cup
                      { save_time_record([r EXCEPT !.check_out = tnow']) : r \in found }
                /\ TimeAnswer("check_out", user, tnow', 200)
    /\ UNCHANGED <<treqs, outsideTime>>

TimeInit ==
    /\ TimeAtRest
    /\ svc = NoCall
    /\ VisitsAtRest
    /\ XrefsAtRest
    /\ SendsAtRest
    /\ AccountsAtRest
    /\ EmployeesAtRest
    /\ IdsAtRest

TimeNext ==
    \/ \E w \in Workers, user \in TimeUsers : CheckInView_post(w, user)
    \/ \E w \in Workers : CheckInView_full_clean(w)
    \/ \E w \in Workers : CheckInView_save(w)
    \/ \E user \in TimeUsers : CheckOutView_post(user)

TimeSpec == TimeInit /\ [][TimeNext]_vars

(***************************************************************************)
(* Visit.save: the generation of visit_other_id, followed step by step so  *)
(* that two creations can overlap.                                         *)
(***************************************************************************)
\* The threads that create visits.
Creators == {"t1", "t2"}

NotSaving == [pc |-> "idle", visit_other_id |-> << >>, attempt |-> 0, slept_at |-> 0]

\* f"VISIT{timestamp}"
generated_id(timestamp) == <<"VISIT", timestamp>>

\* Visit.objects.filter(visit_other_id=...).exists()
id_exists(id) == \E pk \in 1..Len(idtable) : idtable[pk] = id

\* The clock moves on by a millisecond.
Millisecond ==
    /\ millis < MaxMillis
    /\ millis' = millis + 1
    /\ UNCHANGED <<idtable, creators, glast, outsideIds>>

\* Visit.save of a new visit without a visit_other_id enters the loop.
Visit_save(t) ==
    /\ creators[t].pc = "idle"
    /\ creators' = [creators EXCEPT ![t] = [NotSaving EXCEPT !.pc = "generate"]]
    /\ UNCHANGED <<idtable, millis, glast, outsideIds>>

\* One pass of the loop: take the timestamp, look the ID up, and leave the
\* loop, or sleep and go round, or fall out of range(3).
Visit_save_attempt(t) ==
    /\ creators[t].pc = "generate"
    /\ LET c == creators[t]
           id == generated_id(millis)
       IN  creators' = [creators EXCEPT ![t] =
              IF ~id_exists(id)
              THEN [c EXCEPT !.visit_other_id = id, !.attempt = @ + 1, !.pc = "insert"]
              ELSE IF c.attempt < 2
              THEN [c EXCEPT !.visit_other_id = id, !.attempt = @ + 1,
                             !.pc = "sleep", !.slept_at = millis]
              ELSE [c EXCEPT !.visit_other_id = id, !.attempt = @ + 1, !.pc = "insert"]]
    /\ UNCHANGED <<idtable, millis, glast, outsideIds>>

\* time.sleep(0.001) returns once a millisecond has passed.
Visit_save_wake(t) ==
    /\ creators[t].pc = "sleep"
    /\ millis > creators[t].slept_at
    /\ creators' = [creators EXCEPT ![t].pc = "generate"]
    /\ UNCHANGED <<idtable, millis, glast, outsideIds>>

\* super().save() on a table without the unique constraint.
Visit_save_insert_unconstrained(t) ==
    /\ creators[t].pc = "insert"
    /\ idtable' = Append(idtable, creators[t].visit_other_id)
    /\ glast' = [creator |-> t, outcome |-> "saved",
                 visit_other_id |-> creators[t].visit_other_id,
                 attempts |-> creators[t].attempt]
    /\ creators' = [creators EXCEPT ![t] = NotSaving]
    /\ UNCHANGED <<millis, outsideIds>>

\* super().save(): the INSERT; visit_other_id is unique=True, so an ID that
\* a row holds makes it raise IntegrityError.
Visit_save_insert(t) ==
    /\ creators[t].pc = "insert"
    /\ IF id_exists(creators[t].visit_other_id)
       THEN /\ glast' = [creator |-> t, outcome |-> "IntegrityError",
                         visit_other_id |-> creators[t].visit_other_id,
                         attempts |-> creators[t].attempt]
            /\ UNCHANGED idtable
       ELSE /\ idtable' = Append(idtable, creators[t].visit_other_id)
            /\ glast' = [creator |-> t, outcome |-> "saved",
                         visit_other_id |-> creators[t].visit_other_id,
                         attempts |-> creators[t].attempt]
    /\ creators' = [creators EXCEPT ![t] = NotSaving]
    /\ UNCHANGED <<millis, outsideIds>>

IdInit ==
    /\ IdsAtRest
    /\ svc = NoCall
    /\ VisitsAtRest
    /\ XrefsAtRest
    /\ SendsAtRest
    /\ AccountsAtRest
    /\ EmployeesAtRest
    /\ TimeAtRest

IdNext ==
    \/ Millisecond
    \/ \E t \in Creators : Visit_save(t)
    \/ \E t \in Creators : Visit_save_attempt(t)
    \/ \E t \in Creators : Visit_save_wake(t)
    \/ \E t \in Creators : Visit_save_insert(t)

IdSpec == IdInit /\ [][IdNext]_vars

(***************************************************************************)
(* Vocabulary of the properties.                                           *)
(***************************************************************************)
\* The step appended exactly one call record with this assignment to pk.
RecordsCall(pk, assignment) ==
    /\ Len(visits'[pk].calls) = Len(visits[pk].calls) + 1
    /\ SubSeq(visits'[pk].calls, 1, Len(visits[pk].calls)) = visits[pk].calls
    /\ visits'[pk].calls[Len(visits'[pk].calls)].call_assignment = assignment

SubmissionState(v) ==
    <<v.submitted_to_evv, v.evv_submission_id, v.evv_submission_date, v.evv_response>>

TerminalTypes == {"completed", "cancelled", "no_show"}

SuccessCodes == {200, 201, 202}

\* A null anywhere in a JSON value, nested mappings included.
RECURSIVE HasNull(_)
HasNull(value) ==
    \/ value.k = "null"
    \/ /\ value.k = "map"
       /\ \E key \in DOMAIN value.v : HasNull(value.v[key])

\* The client with this pk is in the payload of the last upload.
Uploaded(pk) ==
    \E i \in 1..Len(slast.sent) : slast.sent[i].ClientID = Str(ctable[pk].client_id)

\* The client with this pk is reported in invalid_records with the format
\* error on its Medicaid ID.
ReportedForMedicaid(pk) ==
    \E i \in 1..Len(slast.invalid) :
        /\ slast.invalid[i].pk = pk
        /\ \E e \in 1..Len(slast.invalid[i].errors) :
              slast.invalid[i].errors[e]
                  = "medicaid_id must be uppercase letter + 8 digits (e.g. A12345678)"

\* The link's client is reported by SendXrefsToEVV with the format error on
\* its Medicaid ID.
XrefReportedForMedicaid ==
    \E i \in 1..Len(slast.invalid) :
        \E e \in 1..Len(slast.invalid[i].errors) :
            slast.invalid[i].errors[e]
                = "Invalid Medicaid ID format. Must be A followed by 8 digits"

\* Visit.validate_for_evv reports the format error for this medicaid_id.
VisitReportsMedicaid(chars) ==
    LET errors == validate_for_evv(NewVisit(1, TRUE), [medicaid_id |-> chars], EmployeeSsn)
    IN  \E e \in 1..Len(errors) :
            errors[e] = "Client Medicaid ID must be in format A12345678"

\* The fields ClientEmployeeXref.save tracks, as persisted.
Tracked(x) == <<x.start_date, x.end_date, x.live_in, x.relationship>>

CheckOutOps == {"caregiver_check_out", "patch_check_out"}

DetailOps == {"get", "patch_check_in", "patch_check_out", "patch_general", "delete"}

\* The visits the batch send selected and validate_for_evv rejected.
Rejected ==
    { pk \in send_visits_qs(request'.send_type, request'.visit_ids) :
        validate_for_evv(visits[pk], clients[ClientOf(pk)], EmployeeSsn) # << >> }

C2_SubmittedHasCallsAndFlags ==
    \A pk \in rows :
        visits[pk].submitted_to_evv =>
            /\ Len(visits[pk].calls) >= 2
            /\ visits[pk].client_verified_times
            /\ visits[pk].client_verified_service

(***************************************************************************)
(* C3: no upload request is issued for a visit with fewer than 2 call      *)
(* records: every visit in the payload a step uploaded has at least 2.     *)
(***************************************************************************)
C3_NoUploadUnderTwoCalls ==
    \A pk \in last.payload : Len(visits[pk].calls) >= 2

(***************************************************************************)
(* C4: the payload SendVisitsToEVV uploads never holds a visit whose       *)
(* submitted_to_evv was already true when the request arrived.             *)
(***************************************************************************)
C4_SendExcludesSubmitted ==
    [][last'.op = "send_visits" =>
         \A pk \in last'.payload : ~visits[pk].submitted_to_evv]_vars

\* A batch send that uploaded a visit while a visit of the same type, with no
\* validation error, stayed out because an earlier request had submitted it.
C4_Witness ==
    /\ last.op = "send_visits"
    /\ \E pk \in last.payload : \E other \in rows \ (last.payload \cup last.invalid) :
          /\ visits[other].visit_type = visits[pk].visit_type
          /\ visits[other].submitted_to_evv
          /\ visits[other].evv_submission_date < now - 1
          /\ visits[pk].submitted_to_evv
          /\ visits[pk].evv_submission_date = now - 1
          /\ validate_for_evv(visits[other], clients[ClientOf(other)], EmployeeSsn) = << >>

(***************************************************************************)
(* C5: once a visit is marked submitted, a later submission attempt for it *)
(* (a step that uploads it) leaves submitted_to_evv, evv_submission_id,    *)
(* evv_submission_date and evv_response unchanged.                         *)
(***************************************************************************)
C5_ResubmissionIdempotent ==
    [][\A pk \in VisitIds :
         (visits[pk].submitted_to_evv /\ pk \in last'.payload)
            => SubmissionState(visits'[pk]) = SubmissionState(visits[pk])]_vars

(***************************************************************************)
(* C6: after an upload answered with status_code 200, 201 or 202 (and an   *)
(* id in the body), every uploaded visit is marked: submitted_to_evv true, *)
(* the aggregator's id and the time of the request stored.                 *)
(***************************************************************************)
C6_SuccessMarksSubmitted ==
    \A pk \in last.payload :
        (last.result.status_code \in SuccessCodes /\ last.result.id # NoneId) =>
            /\ visits[pk].submitted_to_evv
            /\ visits[pk].evv_submission_id = last.result.id
            /\ visits[pk].evv_submission_date = now - 1

(***************************************************************************)
(* C7: after an upload that failed (status_code 500), every uploaded visit *)
(* got one error record stamped with the time of the request, is not       *)
(* marked submitted by it, and the handler did not fail.                   *)
(***************************************************************************)
C7_FailureAppendsError ==
    \A pk \in last.payload :
        last.result.status_code = 500 =>
            /\ visits[pk].evv_errors # << >>
            /\ visits[pk].evv_errors[Len(visits[pk].evv_errors)].timestamp = now - 1
            /\ visits[pk].evv_submission_date # now - 1
            /\ last.http # 500

(***************************************************************************)
(* C8: once visit_type is completed, cancelled or no_show, no step changes *)
(* it.                                                                     *)
(***************************************************************************)
C8_TerminalStatesFinal ==
    [][\A pk \in VisitIds :
         visits[pk].visit_type \in TerminalTypes
            => visits'[pk].visit_type = visits[pk].visit_type]_vars

(***************************************************************************)
(* C9: a DELETE request never removes a visit row; on a completed visit it *)
(* answers an error and changes no field of any visit; on a visit that is  *)
(* not completed it changes nothing but visit_type, which becomes          *)
(* cancelled.                                                              *)
(***************************************************************************)
C9_DeleteKeepsRows ==
    [][last'.op = "delete" =>
         /\ rows' = rows
         /\ \A pk \in VisitIds :
              /\ pk # last'.pk => visits'[pk] = visits[pk]
              /\ (pk = last'.pk /\ is_completed(visits[pk]))
                    => last'.http >= 400 /\ visits'[pk] = visits[pk]
              /\ (pk = last'.pk /\ ~is_completed(visits[pk]))
                    => \/ last'.http >= 400 /\ visits'[pk] = visits[pk]
                       \/ visits'[pk] = [visits[pk] EXCEPT !.visit_type = "cancelled"]]_vars

\* A DELETE on a completed visit was answered 400.
C9_Witness ==
    /\ last.op = "delete"
    /\ last.http = 400
    /\ last.pk \in rows
    /\ visits[last.pk].visit_type = "completed"

(***************************************************************************)
(* C10: a step that records 'Time In' on a scheduled visit appends exactly *)
(* one call record, sets visit_type to in_progress and actual_start_time   *)
(* to the time of the call, and leaves actual_end_time, hours_to_bill,     *)
(* hours_to_pay and the submission state unchanged.                        *)
(***************************************************************************)
C10_TimeInOnScheduled ==
    [][\A pk \in VisitIds :
         (last'.call = "Time In" /\ last'.pk = pk /\ visits[pk].visit_type = "scheduled") =>
            /\ RecordsCall(pk, "Time In")
            /\ visits'[pk].visit_type = "in_progress"
            /\ visits'[pk].actual_start_time # NoTime
            /\ visits'[pk].actual_start_time =
                  visits'[pk].calls[Len(visits'[pk].calls)].call_date_time
            /\ visits'[pk].actual_end_time = visits[pk].actual_end_time
            /\ visits'[pk].hours_to_bill = visits[pk].hours_to_bill
            /\ visits'[pk].hours_to_pay = visits[pk].hours_to_pay
            /\ SubmissionState(visits'[pk]) = SubmissionState(visits[pk])
            /\ visits'[pk].evv_errors = visits[pk].evv_errors]_vars

\* The first request on a fresh visit was a check-in.
C10_Witness ==
    /\ now = 2
    /\ last.call = "Time In"
    /\ last.pk \in rows
    /\ visits[last.pk].visit_type = "in_progress"
    /\ Len(visits[last.pk].calls) = 1
    /\ visits[last.pk].actual_start_time = 1

C12_FarCheckOutRejected ==
    [][(last'.op \in CheckOutOps /\ request'.location = "far") =>
          /\ last'.http >= 400
          /\ last'.call # "Time Out"
          /\ visits' = visits]_vars

(***************************************************************************)
(* C13: after SendClientsToEVV has answered, every client whose            *)
(* medicaid_id does not match ^[A-Z]\d{8}$ (a missing or empty one         *)
(* included) is absent from the uploaded payload and is reported in        *)
(* invalid_records with the Medicaid-ID format error.                      *)
(***************************************************************************)
C13_BadMedicaidLeftOut ==
    slast.op = "send_clients" /\ slast.http \in {200, 400} =>
        \A pk \in DOMAIN ctable :
            (ctable[pk].medicaid_id.null \/ ~MatchMedicaid(ctable[pk].medicaid_id.chars)) =>
                ~Uploaded(pk) /\ ReportedForMedicaid(pk)

(***************************************************************************)
(* C14: the sequence_id of a ClientEmployeeXref is 1 when the row is       *)
(* created, never decreases, and a step that updates the row raises it by  *)
(* exactly 1 if it changes a tracked field (start_date, end_date, live_in, *)
(* relationship) and leaves it alone otherwise.                            *)
(***************************************************************************)
C14_SequenceFollowsTrackedFields ==
    [][/\ (xref.pk = 0 /\ xref'.pk # 0) => xref'.sequence_id = 1
       /\ xref.pk # 0 =>
            /\ xref'.pk = xref.pk
            /\ xref'.sequence_id >= xref.sequence_id
            /\ xref'.sequence_id =
                  IF Tracked(xref') # Tracked(xref)
                  THEN xref.sequence_id + 1
                  ELSE xref.sequence_id]_vars

C16_RequestsPerCall ==
    /\ svc.op # "get_upload_status" => Len(svc.sent) <= 1
    /\ Len(svc.sent) <= Len(StatusPlan)
    /\ svc.op = "get_upload_status" =>
          /\ svc.sent = SubSeq(StatusPlan, 1, Len(svc.sent))
          /\ \A i \in 1..Len(svc.sent) :
                (i <= Len(param_variations) /\ svc.codes[i] = 200) =>
                    /\ i = Len(svc.sent)
                    /\ svc.pc = "done"
                    /\ svc.returned.status_code = 200
          /\ svc.pc = "fallback" <=>
                (Len(svc.sent) = Len(param_variations) /\ svc.codes[Len(svc.sent)] # 200)
          /\ (svc.pc = "done" /\ svc.codes[Len(svc.sent)] # 200)
                => Len(svc.sent) = Len(StatusPlan)

\* The third variant was answered 200 and the call returned after three
\* requests.
C16_Witness ==
    /\ svc.op = "get_upload_status"
    /\ svc.pc = "done"
    /\ Len(svc.sent) = 3
    /\ svc.sent[3].param = "transactionId"
    /\ svc.codes = <<404, 500, 200>>

(***************************************************************************)
(* C17: every visit a batch send selected and local validation rejected is *)
(* returned in invalid_records, stays out of the payload and keeps its     *)
(* persisted state, whatever happens to the other visits of the batch.     *)
(***************************************************************************)
C17_RejectedReturnedUnchanged ==
    [][last'.op = "send_visits" =>
          \A pk \in Rejected :
              /\ pk \in last'.invalid
              /\ pk \notin last'.payload
              /\ visits'[pk] = visits[pk]]_vars

(***************************************************************************)
(* C18: no record SendClientsToEVV or SendXrefsToEVV hands to the          *)
(* aggregator holds a key whose value is null, at the top level or inside  *)
(* a nested mapping.                                                       *)
(***************************************************************************)
C18_NoNullInRecords ==
    \A i \in 1..Len(slast.sent) : ~HasNull(Map(slast.sent[i]))

(***************************************************************************)
(* C19: a step changes the role of a user only if it is a request of an    *)
(* admin user other than that user.                                        *)
(***************************************************************************)
C19_RoleChangedByOtherAdminOnly ==
    [][\A u \in UserIds :
          users'[u].role # users[u].role =>
              /\ alast'.requester \in UserIds
              /\ alast'.requester # u
              /\ is_admin(users[alast'.requester])]_vars

(***************************************************************************)
(* C20: a VisitDetailView request (GET, PATCH, DELETE) by a requester that *)
(* is not the authenticated user linked to the visit's employee is denied  *)
(* and leaves every visit unchanged.                                       *)
(***************************************************************************)
C20_OnlyAssignedEmployee ==
    [][(last'.op \in DetailOps /\ request'.requester # "owner") =>
          /\ last'.http \in {401, 403, 404}
          /\ visits' = visits]_vars

(***************************************************************************)
(* C21: a step in which EmployeeView.create inserts an employee ends with  *)
(* exactly one more user, carrying the employee's email and name and       *)
(* linked to the employee; the hooks ran twice (for the insert and for the *)
(* nested save) and the chain ended.                                       *)
(***************************************************************************)
C21_CreateLinksOneUser ==
    [][(elast'.op = "employee_create" /\ Len(employees') = Len(employees) + 1) =>
          LET pk == Len(employees')
              uid == employees'[pk].user
          IN  /\ Len(accounts') = Len(accounts) + 1
              /\ uid = Len(accounts')
              /\ accounts'[uid].email = employees'[pk].email
              /\ accounts'[uid].name = employees'[pk].name
              /\ elast'.runs = 2]_vars

(***************************************************************************)
(* C22: when CreateUserForEmployeeView.post answers 201 for an employee    *)
(* that had no linked user, the employee has one afterwards; when the      *)
(* employee already has a user it answers 400 and creates no user.         *)
(***************************************************************************)
C22_CreatedMeansLinked ==
    [][(elast'.op = "create_user_for_employee" /\ elast'.pk \in 1..Len(employees)) =>
          LET pk == elast'.pk
          IN  /\ (employees[pk].user = 0 /\ elast'.http = 201) => employees'[pk].user # 0
              /\ employees[pk].user # 0 => (elast'.http = 400 /\ accounts' = accounts)]_vars

(***************************************************************************)
(* C23: there is at most one TimeRecord per (user, date), also when        *)
(* check-ins of the same user overlap; and a step of a check-in whose day  *)
(* already has a record changes no record and, if it answers, answers an   *)
(* error.                                                                  *)
(***************************************************************************)
C23_OneRecordPerDay ==
    [][/\ \A r1, r2 \in time_records' :
             (r1.user = r2.user /\ r1.date = r2.date) => r1 = r2
       /\ \A w \in Workers :
             (treqs'[w] # treqs[w] /\ treqs[w].pc # "idle"
                 /\ records_of(treqs[w].user, treqs[w].today) # {}) =>
                    /\ time_records' = time_records
                    /\ tlast'.at = treqs[w].now /\ tlast'.http \in {400, 500}
       /\ (tlast' # tlast /\ tlast'.op = "check_in" /\ tlast'.at = tnow'
              /\ tnow' # tnow /\ records_of(tlast'.user, date_of(tnow')) # {}) =>
                    /\ time_records' = time_records
                    /\ tlast'.http = 400]_vars

\* Two check-ins of one user overlapped and the table refused the second.
C23_Witness ==
    /\ tlast.op = "check_in" /\ tlast.http = 500
    /\ records_of(tlast.user, date_of(tlast.at)) # {}

(***************************************************************************)
(* C24: a check-out request sets check_out, and hours_worked from          *)
(* check_out minus check_in, on the requesting user's record of today      *)
(* whose check_out is unset, and answers 200; when there is no such record *)
(* it answers 400 and changes no record; a check_out once set is never     *)
(* changed by any request.                                                 *)
(***************************************************************************)
C24_CheckOutOnce ==
    [][/\ (tlast' # tlast /\ tlast'.op = "check_out") =>
             LET open == { r \in time_records :
                             /\ r.user = tlast'.user
                             /\ r.date = date_of(tlast'.at)
                             /\ r.check_out = NoTime }
             IN  IF open = {}
                 THEN tlast'.http = 400 /\ time_records' = time_records
                 ELSE /\ tlast'.http = 200
                      /\ time_records' = (time_records \ open) \cup
                            { [r EXCEPT !.check_out = tlast'.at,
                                        !.hours_worked =
                                            round2(total_seconds(tlast'.at - r.check_in))]
                              : r \in open }
       /\ \A r \in time_records : r.check_out # NoTime => r \in time_records']_vars

\* A check-out was refused because the day's record was already closed.
C24_Witness ==
    /\ tlast.op = "check_out" /\ tlast.http = 400
    /\ \E r \in records_of(tlast.user, date_of(tlast.at)) :
          r.check_out # NoTime /\ r.check_out < tlast.at /\ r.hours_worked > 0

(***************************************************************************)
(* C25: no two persisted visits share a visit_other_id, also when two      *)
(* visits are created within the same millisecond; the loop of Visit.save  *)
(* makes at most 3 attempts, and a save never persists a visit under an ID *)
(* that a row already holds.                                               *)
(***************************************************************************)
C25_UniqueVisitOtherId ==
    [][/\ \A pk1, pk2 \in 1..Len(idtable') :
             idtable'[pk1] = idtable'[pk2] => pk1 = pk2
       /\ \A t \in Creators : creators'[t].attempt <= 3
       /\ Len(idtable') > Len(idtable) =>
             /\ idtable' = Append(idtable, glast'.visit_other_id)
             /\ ~id_exists(glast'.visit_other_id)]_vars

\* A save used its three attempts, each on an ID already taken, and the
\* table refused the last.
C25_Witness ==
    /\ glast.outcome = "IntegrityError"
    /\ glast.attempts = 3

(***************************************************************************)
(* C26: for a non-empty client medicaid_id, SendXrefsToEVV (once it has    *)
(* examined the link of that client) and Visit.validate_for_evv report the *)
(* Medicaid-ID format error exactly when the id does not match             *)
(* ^[A-Z]\d{8}$, the pattern of SendClientsToEVV.                          *)
(***************************************************************************)
C26_SameMedicaidPattern ==
    LET m == ctable[1].medicaid_id
    IN  (/\ slast.op = "send_xrefs"
         /\ slast.sent # << >> \/ slast.invalid # << >>
         /\ ~m.null /\ m.chars # << >>) =>
            /\ XrefReportedForMedicaid <=> ~MatchMedicaid(m.chars)
            /\ VisitReportsMedicaid(m.chars) <=> ~MatchMedicaid(m.chars)

(***************************************************************************)
(* C27: in every reachable state a completed visit has actual_start_time   *)
(* and actual_end_time set, the start not after the end, and a 'Time In'   *)
(* record before a 'Time Out' record in its calls.                         *)
(***************************************************************************)
TimeInBeforeTimeOut(calls) ==
    \E i, j \in 1..Len(calls) :
       /\ i < j
       /\ calls[i].call_assignment = "Time In"
       /\ calls[j].call_assignment = "Time Out"

C27_CompletedHasTimesAndCalls ==
    \A pk \in rows :
       is_completed(visits[pk]) =>
          /\ visits[pk].actual_start_time # NoTime
          /\ visits[pk].actual_end_time # NoTime
          /\ visits[pk].actual_start_time <= visits[pk].actual_end_time
          /\ TimeInBeforeTimeOut(visits[pk].calls)

(***************************************************************************)
(* C28: the submitted_to_evv value in the response of a check_out of       *)
(* CaregiverOperationsView equals the visit's persisted submitted_to_evv   *)
(* after the request, whatever the outcome of the auto-submit upload.      *)
(***************************************************************************)
\* 'submitted_to_evv': auto_submit in the Response: the request's
\* auto_submit_to_evv flag, which is true exactly when the handler called
\* evv.upload_visits with the visit.
response_submitted_to_evv(answer) == answer.payload # {}

C28_ResponseMatchesPersisted ==
    (last.op = "caregiver_check_out" /\ last.http = 200) =>
        response_submitted_to_evv(last) = visits[last.pk].submitted_to_evv

(***************************************************************************)
(* C29: in SendVisitsToEVV every candidate visit ends up in exactly one of *)
(* the uploaded payload and invalid_records (count_sent + invalid_count is *)
(* the number of candidates), and after an upload answered with a status   *)
(* the view takes for success the visits marked submitted by the request   *)
(* are exactly the visits of the payload.                                  *)
(***************************************************************************)
C29_PartitionedAndMarked ==
    [][last'.op = "send_visits" =>
          LET candidates == send_visits_qs(request'.send_type, request'.visit_ids)
              marked == { pk \in rows : /\ visits'[pk].submitted_to_evv
                                        /\ ~visits[pk].submitted_to_evv }
          IN  /\ last'.payload \cup last'.invalid = candidates
              /\ last'.payload \cap last'.invalid = {}
              /\ Cardinality(last'.payload) + Cardinality(last'.invalid)
                    = Cardinality(candidates)
              /\ (last'.payload # {} /\ send_marks(last'.result)) =>
                    marked = last'.payload]_vars

(***************************************************************************)
(* C30: no visit is included in more than one successful upload to the     *)
(* aggregator: a visit that carries the aggregator's answer to a           *)
(* successful upload is never in the payload of another upload that the    *)
(* aggregator answers with success.                                        *)
(***************************************************************************)
\* The visit was marked after an upload the aggregator answered 200 or 202
\* (the admin action stores its own response, with no status of an upload).
UploadedBefore(v) ==
    /\ v.submitted_to_evv
    /\ v.evv_response.status_code \in {200, 202}

C30_AtMostOneSuccessfulUpload ==
    [][\A pk \in VisitIds :
         (pk \in last'.payload /\ last'.result.status_code \in {200, 202})
            => ~UploadedBefore(visits[pk])]_vars

====
